---- MODULE Spec2Model ----
(***************************************************************************)
(* Model of the Temp Mail API client (tempmail/client.py, models.py,       *)
(* exceptions.py): the request executor TempMailClient._make_request with  *)
(* its retry loop, the header-based rate-limit update, and the public      *)
(* operations that call it.                                                *)
(*                                                                         *)
(* One call is followed step by step.  A call is split at the network     *)
(* boundary: Call runs the operation up to the first session.request,      *)
(* TransportFailure and Respond are one iteration of the retry loop each   *)
(* (the request, the handling of its outcome, and, when the executor       *)
(* returns, the operation's decoding of the payload).                      *)
(*                                                                         *)
(* Spec is the client used by one caller.  SpecLifecycle adds the caller's *)
(* attempts to close the client or to use it in a with statement;          *)
(* SpecConcurrent adds the steps of other threads that share the client:   *)
(* a concurrent call handling its response, and a reader of                *)
(* last_rate_limit.                                                        *)
(***************************************************************************)
EXTENDS Integers, Sequences, FiniteSets, TLC

\* Largest max_retries a client is constructed with.
MaxRetries == 3

VARIABLES
    api_key,              \* constructor argument
    constructed,          \* whether __init__ returned an object
    max_retries,          \* self.max_retries
    json_error_is_request_exception,
                          \* whether response.json()'s decode error derives from
                          \* requests.exceptions.RequestException (requests >= 2.27)
                          \* or is a plain ValueError (older requests)
    last_rate_limit,      \* self._last_rate_limit: <<>> (None) or <<RateLimit>>
    pc,                   \* "idle" | "request" | "done"
    op,                   \* the operation in flight or last finished
    attempt,              \* loop variable of _make_request
    requests,             \* session.request calls issued by the current call
    transport_failures,   \* of those, the ones session.request itself failed
    sleeps,               \* the time.sleep arguments of the current call, in order
    resp,                 \* the last response the current call received
    last_step,            \* what the current call did last: "call" (it began),
                          \* "transport_failure" or "response"
    pre_rate_limit,       \* last_rate_limit when the current call began
    exec,                 \* how _make_request ended
    result,               \* how the operation ended
    retval,               \* what the operation returned
    sent,                 \* the session.request arguments of the current call, in order
    close_requested,      \* whether the caller has asked for the client to be closed
    releases,             \* how many times the session has been closed
    observed              \* what a concurrent reader of last_rate_limit last saw

vars == <<api_key, constructed, max_retries, json_error_is_request_exception,
          last_rate_limit, pc, op, attempt, requests, transport_failures,
          sleeps, resp, last_step, pre_rate_limit, exec, result, retval,
          sent, close_requested, releases, observed>>

(***************************************************************************)
(* Values                                                                  *)
(***************************************************************************)

\* Optional[T]: None is the empty sequence, a value v is <<v>>.
None == <<>>
Some(v) == <<v>>

\* An exception (or no exception): its class, its message and, for APIError,
\* its status_code.
NoError == [kind |-> "none", msg |-> <<>>, status |-> None]
Error(kind, msg) == [kind |-> kind, msg |-> msg, status |-> None]

\* The exception classes of exceptions.py: all derive from TempMailError.
ClientErrorKinds ==
    {"TempMailError", "AuthenticationError", "RateLimitError",
     "ValidationError", "APIError"}

IsClientError(e) == e.kind \in ClientErrorKinds

\* APIError(message, status_code=...)
APIError(msg, status_code) ==
    [kind |-> "APIError", msg |-> msg, status |-> Some(status_code)]

(***************************************************************************)
(* Response headers.  requests gives response.headers as a case-insensitive *)
(* mapping; a header value is text, here a sequence of characters.          *)
(***************************************************************************)

Lower(name) ==
    CASE name \in {"X-RateLimit-Limit", "X-Ratelimit-Limit"} -> "x-ratelimit-limit"
      [] name \in {"X-RateLimit-Remaining", "X-Ratelimit-Remaining"} -> "x-ratelimit-remaining"
      [] name \in {"X-RateLimit-Reset", "X-Ratelimit-Reset"} -> "x-ratelimit-reset"
      [] name \in {"X-RateLimit-Used", "X-Ratelimit-Used"} -> "x-ratelimit-used"
      [] OTHER -> name

\* `name in headers`
HeadersContain(headers, name) ==
    \E k \in DOMAIN headers : Lower(k) = Lower(name)

\* headers[name]
HeadersGetItem(headers, name) ==
    headers[CHOOSE k \in DOMAIN headers : Lower(k) = Lower(name)]

Digits == {"0", "1", "2", "3", "4", "5", "6", "7", "8", "9"}

DigitValue(c) ==
    CASE c = "0" -> 0 [] c = "1" -> 1 [] c = "2" -> 2 [] c = "3" -> 3
      [] c = "4" -> 4 [] c = "5" -> 5 [] c = "6" -> 6 [] c = "7" -> 7
      [] c = "8" -> 8 [] c = "9" -> 9

\* int(text) raises ValueError unless the text is a decimal numeral.
IntRaisesValueError(text) ==
    Len(text) = 0 \/ \E i \in 1..Len(text) : text[i] \notin Digits

RECURSIVE IntOf(_)
IntOf(text) ==
    IF Len(text) = 0 THEN 0
    ELSE 10 * IntOf(SubSeq(text, 1, Len(text) - 1)) + DigitValue(text[Len(text)])

\* int(headers.get(name, 0)): [raises, value]
IntOfHeaderOrZero(headers, name) ==
    IF ~HeadersContain(headers, name) THEN [raises |-> FALSE, value |-> 0]
    ELSE IF IntRaisesValueError(HeadersGetItem(headers, name))
         THEN [raises |-> TRUE, value |-> 0]
         ELSE [raises |-> FALSE, value |-> IntOf(HeadersGetItem(headers, name))]

(***************************************************************************)
(* RateLimit (models.py): a dataclass with four required fields.           *)
(***************************************************************************)

RateLimitFields == {"limit", "remaining", "reset", "used"}

\* RateLimit(**kwargs): the generated __init__ raises TypeError unless every
\* field is given.
RateLimitInitRaisesTypeError(kwargs) == DOMAIN kwargs # RateLimitFields

\* RateLimit.from_json(data)
RateLimitFromJson(data) ==
    [limit |-> data.limit, remaining |-> data.remaining,
     reset |-> data.reset, used |-> data.used]

\* _update_rate_limit_from_headers(headers), from snapshot `old`:
\* [raised, snapshot].  ValueError and KeyError are swallowed; the keyword
\* arguments are evaluated left to right before RateLimit is called.
UpdateRateLimitFromHeaders(headers, old) ==
    IF ~HeadersContain(headers, "X-RateLimit-Limit")
    THEN [raised |-> NoError, snapshot |-> old]
    ELSE IF IntRaisesValueError(HeadersGetItem(headers, "X-RateLimit-Limit"))
            \/ IntOfHeaderOrZero(headers, "X-RateLimit-Remaining").raises
            \/ IntOfHeaderOrZero(headers, "X-RateLimit-Reset").raises
    THEN [raised |-> NoError, snapshot |-> old]
    ELSE LET kwargs ==
                 [limit |-> IntOf(HeadersGetItem(headers, "X-RateLimit-Limit")),
                  remaining |-> IntOfHeaderOrZero(headers, "X-RateLimit-Remaining").value,
                  reset |-> IntOfHeaderOrZero(headers, "X-RateLimit-Reset").value]
         IN  IF RateLimitInitRaisesTypeError(kwargs)
             THEN [raised |-> Error("TypeError", <<"RateLimit.__init__() missing argument">>),
                   snapshot |-> old]
             ELSE [raised |-> NoError, snapshot |-> Some(kwargs)]

(***************************************************************************)
(* Responses: the inputs of the model.                                     *)
(***************************************************************************)

Text100 == <<"1", "0", "0">>
Text95 == <<"9", "5">>
Text1640995200 == <<"1", "6", "4", "0", "9", "9", "5", "2", "0", "0">>
Text5 == <<"5">>
TextAbc == <<"a", "b", "c">>

NoHeaders == [k \in {} |-> <<>>]

\* The four rate-limit headers as the service sends them.
AllFourHeaders ==
    [k \in {"X-Ratelimit-Limit", "X-Ratelimit-Remaining",
            "X-Ratelimit-Reset", "X-Ratelimit-Used"} |->
        CASE k = "X-Ratelimit-Limit" -> Text100
          [] k = "X-Ratelimit-Remaining" -> Text95
          [] k = "X-Ratelimit-Reset" -> Text1640995200
          [] k = "X-Ratelimit-Used" -> Text5]

Without(headers, name) == [k \in DOMAIN headers \ {name} |-> headers[k]]

HeaderCases ==
    { NoHeaders,
      AllFourHeaders,
      \* the three headers the client reads, spelled as in client.py
      [k \in {"X-RateLimit-Limit", "X-RateLimit-Remaining", "X-RateLimit-Reset"} |->
          CASE k = "X-RateLimit-Limit" -> Text100
            [] k = "X-RateLimit-Remaining" -> Text95
            [] k = "X-RateLimit-Reset" -> Text1640995200],
      [AllFourHeaders EXCEPT !["X-Ratelimit-Limit"] = TextAbc],
      [AllFourHeaders EXCEPT !["X-Ratelimit-Reset"] = TextAbc],
      [AllFourHeaders EXCEPT !["X-Ratelimit-Used"] = TextAbc],
      Without(AllFourHeaders, "X-Ratelimit-Limit"),
      Without(AllFourHeaders, "X-Ratelimit-Remaining"),
      Without(AllFourHeaders, "X-Ratelimit-Used"),
      \* other values: limit 5, no remaining
      Without([AllFourHeaders EXCEPT !["X-Ratelimit-Limit"] = Text5],
              "X-Ratelimit-Remaining") }

\* A response body: whether response.content is empty, how response.json()
\* ends ("invalid": it raises a decode error; "array": a JSON value that is
\* not an object; "object": a dict), and the dict.
EmptyObject == [k \in {} |-> 0]
Body(content, json, obj) == [content |-> content, json |-> json, obj |-> obj]

EmptyBody == Body("empty", "invalid", EmptyObject)
NotJsonBody == Body("nonempty", "invalid", EmptyObject)
ArrayBody == Body("nonempty", "array", EmptyObject)
ObjectBody(obj) == Body("nonempty", "object", obj)

\* The error envelope of the service.
Envelope(code, detail) ==
    [error |-> [code |-> code, detail |-> detail, type |-> "request_error"],
     meta |-> [request_id |-> "01K510JMH7V5PTN1TNCW5HF9AE"]]

EnvelopeCodes ==
    {"api_key_invalid", "api_key_empty", "rate_limited", "validation_error",
     "internal_error"}

DetailOf(code) ==
    CASE code = "api_key_invalid" -> "API token is invalid"
      [] code = "api_key_empty" -> "API token is empty"
      [] code = "rate_limited" -> "You have reached your rate limit. Please try again later."
      [] code = "validation_error" -> "Invalid domain name"
      [] code = "internal_error" -> "Internal server error"

RateLimitObject ==
    [limit |-> 100, remaining |-> 95, used |-> 5, reset |-> 1640995200]

Bodies ==
    {EmptyBody, NotJsonBody, ArrayBody}
    \cup {ObjectBody(Envelope(c, DetailOf(c))) : c \in EnvelopeCodes}
    \cup {ObjectBody([message |-> "Something went wrong"]),
          ObjectBody(EmptyObject),
          ObjectBody(RateLimitObject),
          ObjectBody([domains |-> <<>>]),
          ObjectBody([domains |-> <<[name |-> "example.com", type |-> "public"]>>]),
          ObjectBody([email |-> "test@example.com", ttl |-> 86400]),
          ObjectBody([email |-> "test@example.com", domain |-> "example.com"]),
          ObjectBody([messages |-> <<>>]),
          ObjectBody([messages |->
              <<[id |-> "msg1", from |-> "sender@example.com",
                 to |-> "test@example.com", subject |-> "Test Subject",
                 body_text |-> "Test message body"]>>]),
          ObjectBody([messages |->
              <<[id |-> "msg1", from |-> "sender@example.com",
                 to |-> "test@example.com",
                 body_text |-> "Test message body"]>>]),
          \* every field of a message, attachments null (None) rather than a
          \* list (Some(list))
          ObjectBody([messages |->
              <<[id |-> "msg1", from |-> "<sender@example.com>",
                 to |-> "test@temp.io", cc |-> <<"cc@example.com">>,
                 subject |-> "Test Subject", body_text |-> "Test body",
                 body_html |-> "<p>Test body</p>",
                 created_at |-> "2023-01-01T00:00:00Z",
                 attachments |-> None]>>])}

Statuses == {200, 201, 202, 204, 400, 401, 404, 429, 500}

\* Every status with every body, without rate-limit headers; and every header
\* case on a success, an authentication failure and a server failure.
Responses ==
    [status : Statuses, headers : {NoHeaders}, body : Bodies]
    \cup [status : {200, 401, 500}, headers : HeaderCases,
          body : {ObjectBody(RateLimitObject),
                  ObjectBody(Envelope("api_key_invalid", DetailOf("api_key_invalid")))}]

NoResponse == [status |-> 0, headers |-> NoHeaders, body |-> EmptyBody]

(***************************************************************************)
(* _make_request: the handling of one response inside the try block.       *)
(***************************************************************************)

\* error_data.get("message", default) on the value of
\* `response.json() if response.content else {}`
GetMessage(body, default) ==
    IF body.content # "empty" /\ "message" \in DOMAIN body.obj
    THEN <<body.obj.message>>
    ELSE default

\* Whether `response.json() if response.content else {}` raises the decode error.
ErrorDataRaisesDecodeError(body) ==
    body.content # "empty" /\ body.json = "invalid"

\* Whether error_data is not a dict, so that error_data.get raises AttributeError.
ErrorDataIsNotDict(body) ==
    body.content # "empty" /\ body.json = "array"

IsSuccessStatus(status_code) == status_code = 200 \/ status_code = 201

Raise(e, snapshot) == [tag |-> "raise", error |-> e, snapshot |-> snapshot]

DecodeError(snapshot) ==
    [tag |-> "decode_error", error |-> NoError, snapshot |-> snapshot]

\* Lines 83-106: [tag, error, snapshot] with tag "return" (the payload is
\* response.json()), "raise" (the error leaves the try block) or
\* "decode_error" (response.json() raised).
HandleResponse(r, old) ==
    LET upd == UpdateRateLimitFromHeaders(r.headers, old)
        snap == upd.snapshot
    IN  IF upd.raised.kind # "none" THEN Raise(upd.raised, snap)
        ELSE IF IsSuccessStatus(r.status)
        THEN IF r.body.json = "invalid" THEN DecodeError(snap)
             ELSE [tag |-> "return", error |-> NoError, snapshot |-> snap]
        ELSE IF r.status = 401
        THEN Raise(Error("AuthenticationError", <<"Invalid API key">>), snap)
        ELSE IF r.status = 429
        THEN Raise(Error("RateLimitError", <<"Rate limit exceeded">>), snap)
        ELSE IF ErrorDataRaisesDecodeError(r.body) THEN DecodeError(snap)
        ELSE IF ErrorDataIsNotDict(r.body)
        THEN Raise(Error("AttributeError", <<"'list' object has no attribute 'get'">>), snap)
        ELSE IF r.status = 400
        THEN Raise(Error("ValidationError",
                         GetMessage(r.body, <<"Invalid request parameters">>)), snap)
        ELSE Raise(APIError(GetMessage(r.body,
                                <<"API request failed with status", r.status>>),
                            r.status), snap)

\* Line 109 with the comparison off by one.
RetriesExhaustedOneEarly(attempt_, max_retries_) == attempt_ + 1 = max_retries_

\* Lines 108-113, the except clause.
RetriesExhausted(attempt_, max_retries_) == attempt_ = max_retries_

RequestFailed(max_retries_, cause) ==
    Error("TempMailError",
          <<"Request failed after", max_retries_ + 1, "attempts", cause>>)

Backoff(attempt_) == 2 ^ attempt_

\* Line 72: whether range(max_retries + 1) yields `attempt_`.
InRange(attempt_, max_retries_) == 0 <= attempt_ /\ attempt_ < max_retries_ + 1

\* Line 116, after the loop.
UnexpectedError == Error("TempMailError", <<"Unexpected error in request handling">>)

(***************************************************************************)
(* The public operations: local validation before the request, decoding    *)
(* of the payload after it.                                                *)
(***************************************************************************)

Returned == [kind |-> "return", msg |-> <<>>, status |-> None]

\* What an operation returns: nothing, True, an Optional[RateLimit], a list.
NoValue == [type |-> "none", rate_limit |-> None, items |-> <<>>]
TrueValue == [type |-> "True", rate_limit |-> None, items |-> <<>>]
RateLimitValue(snapshot) ==
    [type |-> "Optional[RateLimit]", rate_limit |-> snapshot, items |-> <<>>]
ListValue(items) == [type |-> "list", rate_limit |-> None, items |-> items]

\* The dataclasses of models.py the operations construct: the generated
\* __init__ raises TypeError when a field is missing or a keyword is unknown.
DomainFields == {"name", "type"}
EmailAddressFields == {"email", "ttl"}
EmailMessageFields ==
    {"id", "from_addr", "to_addr", "subject", "body_text", "created_at",
     "cc", "body_html", "attachments"}

InitRaisesTypeError(fields, keywords) == keywords # fields

OperationNames ==
    {"create_email", "list_domains", "list_email_messages", "delete_message",
     "get_rate_limit"}

\* The argument an operation is called with: an email address or a message
\* id, possibly empty, for the operations that take one.
Arguments(name) ==
    IF name \in {"list_email_messages", "delete_message"} THEN {"", "x"} ELSE {""}

\* The options an operation is called with: None or an options object
\* (CreateEmailOptions: domain, prefix; ListMessagesOptions: limit, offset).
OptionsOf(name) ==
    IF name = "create_email"
    THEN {None, Some([domain |-> "example.com", prefix |-> ""])}
    ELSE IF name = "list_email_messages"
    THEN {None, Some([limit |-> 10, offset |-> 0])}
    ELSE {None}

\* The query parameters an operation passes to _make_request: the options
\* that are set and truthy, after the email address.
CreateEmailParams(options) ==
    IF options = None THEN Some(EmptyObject)
    ELSE Some([k \in {n \in {"domain", "prefix"} : options[1][n] # ""} |->
                  options[1][k]])

ListMessagesParams(email, options) ==
    IF options = None THEN Some([email |-> email])
    ELSE Some([k \in {"email"} \cup {n \in {"limit", "offset"} : options[1][n] # 0} |->
                  IF k = "email" THEN email ELSE options[1][k]])

\* The arguments of session.request, the same at every attempt of a call:
\* the method, the endpoint joined to base_url, params and json.
RequestOf(name, arg, options) ==
    CASE name = "create_email" ->
            [method |-> "POST", endpoint |-> <<"/emails">>,
             params |-> CreateEmailParams(options), json |-> None]
      [] name = "list_domains" ->
            [method |-> "GET", endpoint |-> <<"/domains">>,
             params |-> None, json |-> None]
      [] name = "list_email_messages" ->
            [method |-> "GET", endpoint |-> <<"/messages">>,
             params |-> ListMessagesParams(arg, options), json |-> None]
      [] name = "delete_message" ->
            [method |-> "DELETE", endpoint |-> <<"/messages/", arg>>,
             params |-> None, json |-> None]
      [] name = "get_rate_limit" ->
            [method |-> "GET", endpoint |-> <<"/rate-limit">>,
             params |-> None, json |-> None]

\* The checks before _make_request, without the one on the email address.
LocalValidationWithoutEmail(name, arg) ==
    IF name = "delete_message" /\ arg = ""
    THEN Error("ValidationError", <<"Message ID is required">>)
    ELSE NoError

\* The checks before _make_request: `if not email`, `if not message_id`.
LocalValidation(name, arg) ==
    IF name = "list_email_messages" /\ arg = ""
    THEN Error("ValidationError", <<"Email address is required">>)
    ELSE IF name = "delete_message" /\ arg = ""
    THEN Error("ValidationError", <<"Message ID is required">>)
    ELSE NoError

Decoded(error, value) == [error |-> error, value |-> value]

\* create_email, lines 151-155
DecodeCreateEmail(data) ==
    IF data.json = "array"
    THEN Decoded(Error("TypeError", <<"list indices must be integers">>), NoValue)
    ELSE IF "email" \notin DOMAIN data.obj
    THEN Decoded(Error("KeyError", <<"email">>), NoValue)
    ELSE IF "domain" \notin DOMAIN data.obj
    THEN Decoded(Error("KeyError", <<"domain">>), NoValue)
    ELSE IF InitRaisesTypeError(EmailAddressFields, {"email", "domain", "created_at"})
    THEN Decoded(Error("TypeError", <<"EmailAddress.__init__() unexpected keyword">>),
                 NoValue)
    ELSE Decoded(Returned, ListValue(<<data.obj>>))

\* list_domains, line 166
DecodeListDomains(data) ==
    IF data.json = "array"
    THEN Decoded(Error("AttributeError", <<"'list' object has no attribute 'get'">>),
                 NoValue)
    ELSE LET domains == IF "domains" \in DOMAIN data.obj THEN data.obj.domains ELSE <<>>
         IN  IF Len(domains) > 0 /\ InitRaisesTypeError(DomainFields, {"domain"})
             THEN Decoded(Error("TypeError", <<"Domain.__init__() unexpected keyword">>),
                          NoValue)
             ELSE Decoded(Returned, ListValue(domains))

\* The subscripts of lines 197-201, in order: the first key a message lacks.
RequiredMessageKeys == <<"id", "from", "to", "subject", "body_text">>

FirstMissingKey(msg_data) ==
    LET missing == {i \in 1..Len(RequiredMessageKeys) :
                        RequiredMessageKeys[i] \notin DOMAIN msg_data}
    IN  IF missing = {} THEN None
        ELSE Some(RequiredMessageKeys[CHOOSE i \in missing : \A j \in missing : i <= j])

\* One iteration of the loop of lines 194-206.
DecodeMessage(msg_data) ==
    IF FirstMissingKey(msg_data) # None
    THEN Error("KeyError", FirstMissingKey(msg_data))
    ELSE IF InitRaisesTypeError(EmailMessageFields,
                {"id", "from_addr", "to_addr", "subject", "body_text",
                 "body_html", "created_at", "attachments"})
    THEN Error("TypeError", <<"EmailMessage.__init__() missing argument">>)
    ELSE Returned

\* list_email_messages, lines 193-208
DecodeListMessages(data) ==
    IF data.json = "array"
    THEN Decoded(Error("AttributeError", <<"'list' object has no attribute 'get'">>),
                 NoValue)
    ELSE LET messages == IF "messages" \in DOMAIN data.obj THEN data.obj.messages ELSE <<>>
             failing == {i \in 1..Len(messages) : DecodeMessage(messages[i]) # Returned}
         IN  IF failing = {} THEN Decoded(Returned, ListValue(messages))
             ELSE Decoded(DecodeMessage(
                              messages[CHOOSE i \in failing : \A j \in failing : i <= j]),
                          NoValue)

\* What the operation does with the payload _make_request returned.
Decode(name, data, snapshot) ==
    CASE name = "create_email" -> DecodeCreateEmail(data)
      [] name = "list_domains" -> DecodeListDomains(data)
      [] name = "list_email_messages" -> DecodeListMessages(data)
      [] name = "delete_message" -> Decoded(Returned, TrueValue)
      [] name = "get_rate_limit" -> Decoded(Returned, RateLimitValue(snapshot))

(***************************************************************************)
(* The state machine                                                       *)
(***************************************************************************)

\* __init__ raising ValidationError for the missing key.
ConstructorValidationError(key) ==
    IF key = "" THEN Error("ValidationError", <<"API key is required">>)
    ELSE NoError

\* __init__, lines 45-46
Constructor(key) ==
    IF key = "" THEN Error("AuthenticationError", <<"API key is required">>)
    ELSE NoError

\* A snapshot is stored on the client when it is constructed.
InitialRateLimitStale == Some([limit |-> 100, remaining |-> 95, reset |-> 1640995200])

\* __init__, line 60
InitialRateLimit == None

\* What a reader of last_rate_limit holds: nothing before its first read,
\* then the value the property returned.
NotObserved == [read |-> FALSE, value |-> None, after |-> NoHeaders]
Observed(value, headers) == [read |-> TRUE, value |-> value, after |-> headers]

Init ==
    /\ api_key \in {"", "test-api-key"}
    /\ constructed = (Constructor(api_key) = NoError)
    /\ max_retries \in -1..MaxRetries
    /\ json_error_is_request_exception \in BOOLEAN
    /\ last_rate_limit = InitialRateLimit
    /\ pc = "idle"
    /\ op = [name |-> "none", arg |-> "", options |-> None]
    /\ attempt = 0
    /\ requests = 0
    /\ transport_failures = 0
    /\ sleeps = <<>>
    /\ resp = NoResponse
    /\ last_step = "call"
    /\ pre_rate_limit = None
    /\ exec = NoError
    /\ result = Constructor(api_key)
    /\ retval = NoValue
    /\ sent = <<>>
    /\ close_requested = FALSE
    /\ releases = 0
    /\ observed = NotObserved

\* The except clause at loop index attempt_: where the call stands after it.
AfterRequestException(attempt_, max_retries_, sleeps_, cause) ==
    IF RetriesExhausted(attempt_, max_retries_)
    THEN [pc |-> "done", attempt |-> attempt_, sleeps |-> sleeps_,
          exec |-> RequestFailed(max_retries_, cause)]
    ELSE IF InRange(attempt_ + 1, max_retries_)
    THEN [pc |-> "request", attempt |-> attempt_ + 1,
          sleeps |-> Append(sleeps_, Backoff(attempt_)), exec |-> NoError]
    ELSE [pc |-> "done", attempt |-> attempt_,
          sleeps |-> Append(sleeps_, Backoff(attempt_)), exec |-> UnexpectedError]

\* A public operation is called: it validates its argument and enters the
\* retry loop of _make_request.
Call(name, arg, options) ==
    /\ constructed
    /\ pc \in {"idle", "done"}
    /\ op' = [name |-> name, arg |-> arg, options |-> options]
    /\ sent' = <<>>
    /\ pre_rate_limit' = last_rate_limit
    /\ attempt' = 0
    /\ requests' = 0
    /\ transport_failures' = 0
    /\ sleeps' = <<>>
    /\ resp' = NoResponse
    /\ last_step' = "call"
    /\ retval' = NoValue
    /\ IF LocalValidation(name, arg) # NoError
       THEN pc' = "done" /\ exec' = NoError /\ result' = LocalValidation(name, arg)
       ELSE IF ~InRange(0, max_retries)
       THEN pc' = "done" /\ exec' = UnexpectedError /\ result' = UnexpectedError
       ELSE pc' = "request" /\ exec' = NoError /\ result' = NoError
    /\ UNCHANGED <<api_key, constructed, max_retries,
                   json_error_is_request_exception, last_rate_limit,
                   close_requested, releases, observed>>

\* session.request raises a requests.exceptions.RequestException.
TransportFailure ==
    /\ pc = "request"
    /\ requests' = requests + 1
    /\ sent' = Append(sent, RequestOf(op.name, op.arg, op.options))
    /\ transport_failures' = transport_failures + 1
    /\ last_step' = "transport_failure"
    /\ LET next == AfterRequestException(attempt, max_retries, sleeps, "Connection failed")
       IN  /\ pc' = next.pc
           /\ attempt' = next.attempt
           /\ sleeps' = next.sleeps
           /\ exec' = next.exec
           /\ result' = next.exec
    /\ UNCHANGED <<api_key, constructed, max_retries,
                   json_error_is_request_exception, last_rate_limit, op, resp,
                   pre_rate_limit, retval, close_requested, releases, observed>>

\* session.request returns response r.
Respond(r) ==
    /\ pc = "request"
    /\ requests' = requests + 1
    /\ sent' = Append(sent, RequestOf(op.name, op.arg, op.options))
    /\ LET h == HandleResponse(r, last_rate_limit)
           d == Decode(op.name, r.body, h.snapshot)
           next == AfterRequestException(attempt, max_retries, sleeps, "Expecting value")
       IN  /\ last_rate_limit' = h.snapshot
           /\ IF h.tag = "return"
              THEN /\ pc' = "done" /\ exec' = Returned
                   /\ result' = d.error /\ retval' = d.value
                   /\ UNCHANGED <<attempt, sleeps>>
              ELSE IF h.tag = "raise"
              THEN /\ pc' = "done" /\ exec' = h.error
                   /\ result' = h.error /\ retval' = NoValue
                   /\ UNCHANGED <<attempt, sleeps>>
              ELSE IF json_error_is_request_exception
              THEN /\ pc' = next.pc /\ attempt' = next.attempt
                   /\ sleeps' = next.sleeps /\ exec' = next.exec
                   /\ result' = next.exec /\ retval' = NoValue
              ELSE /\ pc' = "done"
                   /\ exec' = Error("JSONDecodeError", <<"Expecting value">>)
                   /\ result' = Error("JSONDecodeError", <<"Expecting value">>)
                   /\ retval' = NoValue
                   /\ UNCHANGED <<attempt, sleeps>>
    /\ resp' = r
    /\ last_step' = "response"
    /\ UNCHANGED <<api_key, constructed, max_retries,
                   json_error_is_request_exception, op, transport_failures,
                   pre_rate_limit, close_requested, releases, observed>>

Next ==
    \/ \E name \in OperationNames : \E arg \in Arguments(name) :
            \E options \in OptionsOf(name) : Call(name, arg, options)
    \/ TransportFailure
    \/ \E r \in Responses : Respond(r)

Spec == Init /\ [][Next]_vars

(***************************************************************************)
(* The scoped lifecycle.  TempMailClient defines no close, __enter__ or    *)
(* __exit__ method and never closes self.session: client.close() fails on  *)
(* the attribute lookup, and a with statement fails when it is entered     *)
(* (TypeError from Python 3.11 on, AttributeError before), so its body     *)
(* does not run.                                                           *)
(***************************************************************************)

CloseWays == {"close", "with"}

NoSuchMethod(how) ==
    IF how = "close"
    THEN {Error("AttributeError",
                <<"'TempMailClient' object has no attribute 'close'">>)}
    ELSE {Error("TypeError",
                <<"'TempMailClient' object does not support the context manager protocol">>),
          Error("AttributeError", <<"__enter__">>)}

\* The caller calls client.close(), or uses the client in a with statement.
Close(how) ==
    /\ constructed
    /\ pc \in {"idle", "done"}
    /\ op' = [name |-> how, arg |-> "", options |-> None]
    /\ close_requested' = TRUE
    /\ releases' = releases
    /\ pc' = "done"
    /\ exec' = NoError
    /\ \E e \in NoSuchMethod(how) : result' = e
    /\ retval' = NoValue
    /\ pre_rate_limit' = last_rate_limit
    /\ attempt' = 0
    /\ requests' = 0
    /\ transport_failures' = 0
    /\ sleeps' = <<>>
    /\ sent' = <<>>
    /\ resp' = NoResponse
    /\ last_step' = "call"
    /\ UNCHANGED <<api_key, constructed, max_retries,
                   json_error_is_request_exception, last_rate_limit, observed>>

NextLifecycle ==
    \/ Next
    \/ \E how \in CloseWays : Close(how)

SpecLifecycle == Init /\ [][NextLifecycle]_vars

(***************************************************************************)
(* The client shared by threads.  The only attribute a call writes is      *)
(* _last_rate_limit, in one statement (line 122) that binds it to a        *)
(* RateLimit built beforehand; no RateLimit is modified after that.  A     *)
(* concurrent call therefore touches the shared state in one step, its     *)
(* header update, and a reader in one step, the load of the attribute.     *)
(***************************************************************************)

\* Another thread's call receives a response with these headers.
OtherCallerUpdate(headers) ==
    /\ constructed
    /\ last_rate_limit' = UpdateRateLimitFromHeaders(headers, last_rate_limit).snapshot
    /\ UNCHANGED <<api_key, constructed, max_retries,
                   json_error_is_request_exception, pc, op, attempt, requests,
                   transport_failures, sleeps, resp, last_step, pre_rate_limit,
                   exec, result, retval, sent, close_requested, releases,
                   observed>>

\* A thread reads client.last_rate_limit; the headers of the response the
\* followed call handled last are noted with the value.
Read ==
    /\ constructed
    /\ observed' = Observed(last_rate_limit, resp.headers)
    /\ UNCHANGED <<api_key, constructed, max_retries,
                   json_error_is_request_exception, last_rate_limit, pc, op,
                   attempt, requests, transport_failures, sleeps, resp,
                   last_step, pre_rate_limit, exec, result, retval, sent,
                   close_requested, releases>>

\* The responses that differ in their rate-limit headers.
HeaderResponses ==
    [status : {200}, headers : HeaderCases, body : {ObjectBody(RateLimitObject)}]

NextConcurrent ==
    \/ \E name \in OperationNames : \E arg \in Arguments(name) :
            \E options \in OptionsOf(name) : Call(name, arg, options)
    \/ TransportFailure
    \/ \E r \in HeaderResponses : Respond(r)
    \/ \E headers \in HeaderCases : OtherCallerUpdate(headers)
    \/ Read

SpecConcurrent == Init /\ [][NextConcurrent]_vars

(***************************************************************************)
(* Properties                                                              *)
(***************************************************************************)

Is2xx(status_code) == 200 <= status_code /\ status_code < 300

\* The call ended while handling the response in resp.
EndedOnResponse == pc = "done" /\ last_step = "response"

\* The body is the service's error envelope.
IsEnvelope(body) == body.json = "object" /\ "error" \in DOMAIN body.obj

\* C1: for max_retries = N >= 0, a call whose every attempt is a transport
\* failure goes on until it has issued N + 1 requests, and then ends with the
\* retries-exhausted TempMailError whose message reports N + 1 attempts.
C1_AllAttemptsFail ==
    (requests > 0 /\ transport_failures = requests) =>
        /\ max_retries >= 0
        /\ pc = "request" => requests <= max_retries
        /\ pc = "done" =>
            /\ requests = max_retries + 1
            /\ result.kind = "TempMailError"
            /\ IsClientError(result)
            /\ result.msg[1] = "Request failed after"
            /\ result.msg[2] = requests

\* C1 witness: max_retries = 3, four failed attempts, the call has ended.
C1_Witness ==
    /\ pc = "done" /\ max_retries = 3
    /\ requests = 4 /\ transport_failures = 4
    /\ result.kind = "TempMailError"

\* C2: a 4xx or 5xx response ends the call in the step that receives it: the
\* call has issued one request besides those the transport failed, and has
\* waited only after transport failures.
C2_ErrorResponseIsTerminal ==
    (last_step = "response" /\ resp.status >= 400) =>
        /\ pc = "done"
        /\ requests = transport_failures + 1
        /\ Len(sleeps) = transport_failures

\* APIErrorResponse.is_api_key_error / is_rate_limit_error /
\* is_validation_error: the error kind an envelope code stands for.
ErrorKindOfCode(code) ==
    IF code \in {"api_key_invalid", "api_key_empty"} THEN "AuthenticationError"
    ELSE IF code = "rate_limited" THEN "RateLimitError"
    ELSE IF code = "validation_error" THEN "ValidationError"
    ELSE "APIError"

\* C3: a call that ends on a non-2xx response carrying the error envelope
\* fails with the error kind of the envelope's code, whatever the status.
C3_ClassifiedByCode ==
    (EndedOnResponse /\ ~Is2xx(resp.status) /\ IsEnvelope(resp.body)) =>
        result.kind = ErrorKindOfCode(resp.body.obj.error.code)

\* C4: the error of a call that ends on a non-2xx response has the envelope's
\* detail as its message when the body carries one, and otherwise the
\* templated message naming the status code.
C4_MessageIsDetail ==
    (EndedOnResponse /\ ~Is2xx(resp.status)) =>
        IF IsEnvelope(resp.body) /\ "detail" \in DOMAIN resp.body.obj.error
        THEN result.msg = <<resp.body.obj.error.detail>>
        ELSE Len(result.msg) = 2 /\ result.msg[2] = resp.status

\* The four rate-limit headers are present and integer-valued.
RateLimitHeaderNames ==
    {"X-Ratelimit-Limit", "X-Ratelimit-Remaining", "X-Ratelimit-Reset",
     "X-Ratelimit-Used"}

CarriesFourIntegers(headers) ==
    \A n \in RateLimitHeaderNames :
        HeadersContain(headers, n) /\ ~IntRaisesValueError(HeadersGetItem(headers, n))

\* The snapshot the four headers stand for.
SnapshotOfHeaders(headers) ==
    [limit |-> IntOf(HeadersGetItem(headers, "X-Ratelimit-Limit")),
     remaining |-> IntOf(HeadersGetItem(headers, "X-Ratelimit-Remaining")),
     reset |-> IntOf(HeadersGetItem(headers, "X-Ratelimit-Reset")),
     used |-> IntOf(HeadersGetItem(headers, "X-Ratelimit-Used"))]

\* C5: a call that ends on a 200 response with a JSON body and the four
\* integer rate-limit headers returns from the executor, and the stored
\* snapshot is the one the headers give.
C5_SnapshotFromHeaders ==
    (EndedOnResponse /\ resp.status = 200 /\ resp.body.json # "invalid"
        /\ CarriesFourIntegers(resp.headers)) =>
        /\ exec.kind = "return"
        /\ last_rate_limit = Some(SnapshotOfHeaders(resp.headers))

\* Some rate-limit header is present, and some is missing or not a number.
Malformed(headers) ==
    /\ \E n \in RateLimitHeaderNames : HeadersContain(headers, n)
    /\ ~CarriesFourIntegers(headers)

\* How the executor ends on response r with the snapshot `old` stored.
ExecutorOutcome(r, old) ==
    IF HandleResponse(r, old).tag = "return" THEN Returned
    ELSE HandleResponse(r, old).error

\* C6: when a call ends on its first response and that response has malformed
\* rate-limit headers, no exception of the header update leaves the executor,
\* the snapshot is the one stored before the response, and the executor ends
\* as it does on the same response without headers.
C6_MalformedHeadersIgnored ==
    (EndedOnResponse /\ requests = 1 /\ resp.body.json # "invalid"
        /\ Malformed(resp.headers)) =>
        /\ exec.kind # "TypeError"
        /\ last_rate_limit = pre_rate_limit
        /\ exec = ExecutorOutcome([resp EXCEPT !.headers = NoHeaders], pre_rate_limit)

\* The body is the JSON object of the rate-limit endpoint.
IsRateLimitBody(body) ==
    body.json = "object" /\ RateLimitFields \subseteq DOMAIN body.obj

\* C7: get_rate_limit() that ends on a 2xx response with a rate-limit body
\* returns the RateLimit decoded from that body.
C7_GetRateLimitReturnsBody ==
    (EndedOnResponse /\ op.name = "get_rate_limit" /\ Is2xx(resp.status)
        /\ IsRateLimitBody(resp.body)) =>
        /\ result.kind = "return"
        /\ retval.rate_limit = Some(RateLimitFromJson(resp.body.obj))

\* C8: after get_rate_limit() has returned on a response with a rate-limit
\* body, the stored snapshot is the RateLimit decoded from that body.
C8_GetRateLimitStoresBody ==
    (EndedOnResponse /\ op.name = "get_rate_limit" /\ result.kind = "return"
        /\ IsRateLimitBody(resp.body)) =>
        last_rate_limit = Some(RateLimitFromJson(resp.body.obj))

\* C9: a call that ends on a response whose body is JSON, or on a 204 with an
\* empty body, returns from the executor exactly when the status is in
\* [200, 300).
C9_SuccessIs2xx ==
    (EndedOnResponse /\ resp.headers = NoHeaders
        /\ (resp.body.json # "invalid" \/ (resp.status = 204 /\ resp.body = EmptyBody))) =>
        (exec.kind = "return" <=> Is2xx(resp.status))

\* C10: a call that ends on a non-2xx response whose body is not the error
\* envelope fails with APIError carrying the status code of that response.
C10_UnparsableBodyIsAPIError ==
    (EndedOnResponse /\ ~Is2xx(resp.status) /\ ~IsEnvelope(resp.body)) =>
        /\ result.kind = "APIError"
        /\ result.status = Some(resp.status)

\* C11: list_email_messages called with an empty email address, with or
\* without options and whatever the client did before, has ended with
\* ValidationError without issuing a request.
C11_EmptyEmailRejected ==
    (op.name = "list_email_messages" /\ op.arg = "") =>
        /\ pc = "done"
        /\ result = Error("ValidationError", <<"Email address is required">>)
        /\ IsClientError(result)
        /\ requests = 0
        /\ sent = <<>>

\* C11 witness: the empty-email call was made with options set, on a client
\* whose retry setting allows four attempts, and failed with ValidationError.
C11_Witness ==
    /\ op.name = "list_email_messages" /\ op.arg = "" /\ op.options # None
    /\ max_retries = 3
    /\ pc = "done" /\ result.kind = "ValidationError" /\ requests = 0

\* C12: once the caller has closed the client, by close() or by a with
\* statement, the session has been released exactly once, and no operation
\* called afterwards issues a request.
C12_ClosedReleasesOnce ==
    close_requested =>
        /\ releases = 1
        /\ requests = 0

\* What the header update reads from one response's headers.
FieldsOfHeaders(headers) ==
    [limit |-> IntOfHeaderOrZero(headers, "X-RateLimit-Limit").value,
     remaining |-> IntOfHeaderOrZero(headers, "X-RateLimit-Remaining").value,
     reset |-> IntOfHeaderOrZero(headers, "X-RateLimit-Reset").value]

ReturnedMessages ==
    /\ EndedOnResponse /\ op.name = "list_email_messages"
    /\ exec.kind = "return"
    /\ resp.body.json = "object" /\ "messages" \in DOMAIN resp.body.obj

\* The message lacks one of id, from, to, subject, body_text.
LacksRequiredField(msg_data) ==
    \E k \in {"id", "from", "to", "subject", "body_text"} : k \notin DOMAIN msg_data

\* C14: list_email_messages whose successful response holds a message that
\* lacks a required field fails with ValidationError, a client error; it
\* returns no message and lets no other exception escape.
C14_MissingFieldIsValidationError ==
    (/\ ReturnedMessages
     /\ \E i \in 1..Len(resp.body.obj.messages) :
            LacksRequiredField(resp.body.obj.messages[i])) =>
        /\ result.kind = "ValidationError"
        /\ IsClientError(result)
        /\ retval = NoValue

\* The attachments member of a message JSON is missing or null.
AttachmentsMissingOrNull(msg_data) ==
    "attachments" \notin DOMAIN msg_data \/ msg_data.attachments = None

\* C15: list_email_messages whose successful response holds complete
\* messages, one of them with attachments missing or null, returns one
\* message per entry, each such message with the empty list as attachments.
C15_AttachmentsDefaultToEmpty ==
    (/\ ReturnedMessages
     /\ \A i \in 1..Len(resp.body.obj.messages) :
            ~LacksRequiredField(resp.body.obj.messages[i])
     /\ \E i \in 1..Len(resp.body.obj.messages) :
            AttachmentsMissingOrNull(resp.body.obj.messages[i])) =>
        /\ result.kind = "return"
        /\ Len(retval.items) = Len(resp.body.obj.messages)
        /\ \A i \in 1..Len(retval.items) :
               AttachmentsMissingOrNull(resp.body.obj.messages[i]) =>
                   /\ "attachments" \in DOMAIN retval.items[i]
                   /\ retval.items[i].attachments = Some(<<>>)

\* C16 as stated: an empty API key given to the constructor, and an empty
\* message id given to delete_message, fail with ValidationError without a
\* request.
C16_MissingInputIsValidationError ==
    /\ api_key = "" =>
           (~constructed /\ result.kind = "ValidationError" /\ requests = 0)
    /\ (op.name = "delete_message" /\ op.arg = "") =>
           (pc = "done" /\ result.kind = "ValidationError" /\ requests = 0)

\* C16 amended: an empty API key makes the constructor fail with
\* AuthenticationError, and an empty message id makes delete_message fail
\* with ValidationError; both are client errors raised before any request.
C16_MissingInputRejectedLocally ==
    /\ api_key = "" =>
           /\ ~constructed
           /\ result = Error("AuthenticationError", <<"API key is required">>)
           /\ IsClientError(result)
           /\ pc = "idle" /\ requests = 0 /\ sent = <<>>
    /\ (op.name = "delete_message" /\ op.arg = "") =>
           /\ pc = "done"
           /\ result = Error("ValidationError", <<"Message ID is required">>)
           /\ IsClientError(result)
           /\ requests = 0 /\ sent = <<>>

\* C16 witness: delete_message was called with an empty message id on a
\* constructed client and failed with ValidationError, no request issued.
C16_Witness ==
    /\ constructed /\ api_key # ""
    /\ op.name = "delete_message" /\ op.arg = ""
    /\ pc = "done" /\ result.kind = "ValidationError" /\ requests = 0

\* The wait before retry number k is 2^(k-1): 1, 2, 4, ...
BackoffSchedule == \A k \in 1..Len(sleeps) : sleeps[k] = 2 ^ (k - 1)

\* Every wait follows a transport failure.
WaitsOnlyAfterTransportFailure == Len(sleeps) <= transport_failures

\* A wait is followed by another attempt: a call between attempts has waited
\* once per request issued, a call that has ended once less, and never more
\* than max_retries times.
NoWaitAfterFinalAttempt ==
    /\ pc = "request" => Len(sleeps) = requests
    /\ (pc = "done" /\ requests > 0) => Len(sleeps) = requests - 1
    /\ requests = 0 => sleeps = <<>>
    /\ Len(sleeps) <= IF max_retries > 0 THEN max_retries ELSE 0

\* Every attempt of a call passes the same arguments to session.request,
\* those of the operation.
SameRequestEveryAttempt ==
    /\ Len(sent) = requests
    /\ \A i \in 1..Len(sent) : sent[i] = RequestOf(op.name, op.arg, op.options)

\* C17: the executor waits 2^(k-1) before retry k, only after a transport
\* failure and not after the final attempt, and every attempt issues the
\* same request.
C17_ExponentialBackoff ==
    /\ BackoffSchedule
    /\ WaitsOnlyAfterTransportFailure
    /\ NoWaitAfterFinalAttempt
    /\ SameRequestEveryAttempt

\* C18: no call ends with the error raised after the retry loop,
\* "Unexpected error in request handling", whatever max_retries the client
\* was constructed with and whatever the transport does.
C18_FallthroughNeverReached ==
    /\ exec # UnexpectedError
    /\ result # UnexpectedError

\* C19: the snapshot is None on a client no operation was called on, and a
\* call that has received no response (it failed its local validation, or
\* each of its attempts so far was a transport failure) has left the snapshot
\* as it was when the call began.
C19_SnapshotChangesOnlyOnResponse ==
    /\ pc = "idle" => last_rate_limit = None
    /\ transport_failures = requests => last_rate_limit = pre_rate_limit

\* C19 witness: get_rate_limit on a client with max_retries = 2 ended after
\* three transport failures, the snapshot being what it was before the call.
C19_Witness ==
    /\ pc = "done" /\ op.name = "get_rate_limit" /\ max_retries = 2
    /\ requests = 3 /\ transport_failures = 3
    /\ last_rate_limit = pre_rate_limit

====
